---- MODULE Spec2Model ----
(***************************************************************************)
(* Model of app/models/decision_table.py: the DecisionTable class.         *)
(*                                                                         *)
(* Python strings are sequences of one-character strings, so that the      *)
(* regular-expression search, the substitution, lower(), isdigit() and     *)
(* int() of __parse_cell_value are computed character by character.        *)
(* Python values (bool, int, str) are records [t, n, s]: t is the type, n  *)
(* the numeric value (bool is a subclass of int: True is 1, False is 0)    *)
(* and s the text of a str.  None is the empty sequence: the only test the *)
(* code applies to an operator is `not operator`, which None and the empty *)
(* string both pass, and the regular expression never matches the empty    *)
(* string.                                                                 *)
(***************************************************************************)
EXTENDS Integers, Sequences, FiniteSets, TLC

VARIABLES
    csv_data,         \* self._csv_data: the raw rows, a list of dicts of strings
    decision_matrix,  \* self._decision_matrix: the parsed rows, a list of dicts
    ddh,              \* the caller's DecisionDataHolder: ordered <<key, value>> pairs
    ret,              \* outcome of the latest call: what it returned or raised
    lookups,          \* the decision_dict[ddh_key] reads of the latest evaluate call
    last_loaded,      \* raw rows of the latest load_csv_data call that returned
    cell,             \* argument of __parse_cell_value (cell parser on its own)
    parsed            \* what __parse_cell_value returned or raised for cell

vars == <<csv_data, decision_matrix, ddh, ret, lookups, last_loaded, cell, parsed>>

(***************************************************************************)
(* Bounds of the model.                                                    *)
(***************************************************************************)
MaxRows == 2      \* rows the decision matrix may hold
MaxDigits == 2    \* digits of an integer literal in a generated cell
MaxOpRun == 2     \* length of a generated run of operator characters

(***************************************************************************)
(* Python values.                                                          *)
(***************************************************************************)
None == <<>>
PyInt(n) == [t |-> "int", n |-> n, s |-> <<>>]
PyBool(b) == [t |-> "bool", n |-> IF b THEN 1 ELSE 0, s |-> <<>>]
PyStr(s) == [t |-> "str", n |-> 0, s |-> s]

(***************************************************************************)
(* Character classes.                                                      *)
(***************************************************************************)
OpChars == {">", "<", "="}
Digits == <<"0", "1", "2", "3", "4", "5", "6", "7", "8", "9">>
UpperCase == <<"A", "B", "C", "D", "E", "F", "G", "H", "I", "J", "K", "L", "M",
               "N", "O", "P", "Q", "R", "S", "T", "U", "V", "W", "X", "Y", "Z">>
LowerCase == <<"a", "b", "c", "d", "e", "f", "g", "h", "i", "j", "k", "l", "m",
               "n", "o", "p", "q", "r", "s", "t", "u", "v", "w", "x", "y", "z">>

IndexOf(seq, c) == IF \E i \in DOMAIN seq : seq[i] = c
                   THEN CHOOSE i \in DOMAIN seq : seq[i] = c
                   ELSE 0

\* _OPS_MAP.keys()
OPS_MAP_keys == {<<">">>, <<"<">>, <<">", "=">>, <<"<", "=">>, <<"=">>}

\* _OPS_MAP[operator](a, b) on two numbers
OpFunc(operator, a, b) ==
    CASE operator = <<">">> -> a > b
      [] operator = <<"<">> -> a < b
      [] operator = <<">", "=">> -> a >= b
      [] operator = <<"<", "=">> -> a =< b
      [] operator = <<"=">> -> a = b

(***************************************************************************)
(* str.lower(), str.isdigit(), int(str), re.search, re.sub                 *)
(***************************************************************************)
LowerChar_CaseSensitive(c) == c

LowerChar(c) == IF IndexOf(UpperCase, c) > 0 THEN LowerCase[IndexOf(UpperCase, c)] ELSE c

Lower(s) == [i \in DOMAIN s |-> LowerChar(s[i])]

IsDigit(s) == s # <<>> /\ \A i \in DOMAIN s : IndexOf(Digits, s[i]) > 0

RECURSIVE DigitsValue(_)
DigitsValue(s) ==
    IF s = <<>> THEN 0
    ELSE 10 * DigitsValue(SubSeq(s, 1, Len(s) - 1)) + (IndexOf(Digits, s[Len(s)]) - 1)

\* int(rem_value) for the texts the caller has tested: digits, or "-" and digits
IntOf(s) == IF s[1] = "-" THEN 0 - DigitsValue(Tail(s)) ELSE DigitsValue(s)

\* re.search(r"[><=]{1,2}", value): the leftmost match, greedy; <<>> is no match
SearchOperator(value) ==
    IF \E i \in DOMAIN value : value[i] \in OpChars
    THEN LET i == CHOOSE k \in DOMAIN value :
                      /\ value[k] \in OpChars
                      /\ \A j \in 1..(k - 1) : value[j] \notin OpChars
         IN IF i < Len(value) /\ value[i + 1] \in OpChars
            THEN SubSeq(value, i, i + 1)
            ELSE SubSeq(value, i, i)
    ELSE None

StartsWith(s, p) == Len(s) >= Len(p) /\ SubSeq(s, 1, Len(p)) = p

\* re.sub(str(operator), "", value): every non-overlapping occurrence, left to right
RECURSIVE RemoveOperator(_, _)
RemoveOperator(operator, value) ==
    IF value = <<>> THEN <<>>
    ELSE IF StartsWith(value, operator)
         THEN RemoveOperator(operator, SubSeq(value, Len(operator) + 1, Len(value)))
         ELSE <<Head(value)>> \o RemoveOperator(operator, Tail(value))

TrueText == <<"t", "r", "u", "e">>
FalseText == <<"f", "a", "l", "s", "e">>

\* what __parse_cell_value returns (res = "ok": the tuple (op, val)) or raises
Returned(operator, value) == [res |-> "ok", op |-> operator, val |-> value]
Raised(error) == [res |-> error, op |-> None, val |-> PyStr(<<>>)]

\* lines 72-83: the type of the text that is left without the operator
ClassifyRemainder(operator, rem_value) ==
    IF Lower(rem_value) \in {TrueText, FalseText}
    THEN Returned(operator, PyBool(Lower(rem_value) = TrueText))
    ELSE IF IsDigit(rem_value) \/ (StartsWith(rem_value, <<"-">>) /\ IsDigit(Tail(rem_value)))
         THEN Returned(operator, PyInt(IntOf(rem_value)))
         ELSE Raised("ValueError: Unknown value type")

\* DecisionTable.__parse_cell_value
parse_cell_value(value) ==
    LET operator == SearchOperator(value)
    IN IF operator = None
       THEN Returned(None, PyStr(value))
       ELSE IF operator \notin OPS_MAP_keys
            THEN Raised("ValueError: Unsupported operator")
            ELSE ClassifyRemainder(operator, RemoveOperator(operator, value))

(***************************************************************************)
(* Dicts are functions; a list of dicts is a sequence of functions.        *)
(***************************************************************************)
status_column == "status"

\* dict iteration order of a raw row: the order of the CSV headers (zip(headers, row))
Headers == <<"age", "country", "status">>

\* {column: __parse_cell_value(value) for column, value in plaintext_dict.items()}:
\* the first cell, in iteration order, whose parse raises ends the comprehension
RECURSIVE FirstParseError(_, _)
FirstParseError(plaintext_dict, i) ==
    IF i > Len(Headers) THEN "ok"
    ELSE IF Headers[i] \in DOMAIN plaintext_dict
            /\ parse_cell_value(plaintext_dict[Headers[i]]).res # "ok"
         THEN parse_cell_value(plaintext_dict[Headers[i]]).res
         ELSE FirstParseError(plaintext_dict, i + 1)

ParseRow(plaintext_dict) ==
    [column \in DOMAIN plaintext_dict |->
        LET p == parse_cell_value(plaintext_dict[column])
        IN [op |-> p.op, val |-> p.val]]

\* the for loop of __parse_csv_data from raw row i on: rows are appended one by one,
\* and a raise leaves the rows appended so far in the matrix
RECURSIVE ParseCsvRows(_, _, _)
ParseCsvRows(matrix, rows, i) ==
    IF i > Len(rows) THEN [matrix |-> matrix, res |-> "None", row |-> 0]
    ELSE IF FirstParseError(rows[i], 1) # "ok"
         THEN [matrix |-> matrix, res |-> FirstParseError(rows[i], 1), row |-> i]
         ELSE ParseCsvRows(Append(matrix, ParseRow(rows[i])), rows, i + 1)

csv_data_loaded_Always(data) == TRUE

\* DecisionTable.csv_data_loaded, DecisionTable.decision_matrix_built
csv_data_loaded(data) == Len(data) # 0
decision_matrix_built(matrix) == Len(matrix) # 0

\* DecisionTable.__parse_csv_data, run on the raw rows rows
parse_csv_data(matrix, rows) ==
    IF csv_data_loaded(rows)
    THEN ParseCsvRows(matrix, rows, 1)
    ELSE [matrix |-> matrix, res |-> "MissingDataError", row |-> 0]

(***************************************************************************)
(* DecisionDataHolder: an insertion-ordered mapping, kept as a sequence of *)
(* <<key, value>> pairs with distinct keys.                                *)
(***************************************************************************)
DdhKeys(d) == [i \in DOMAIN d |-> d[i][1]]
DdhHas(d, key) == \E i \in DOMAIN d : d[i][1] = key
DdhGet(d, key) == d[CHOOSE i \in DOMAIN d : d[i][1] = key][2]
DdhDel(d, key) == SelectSeq(d, LAMBDA pair : pair[1] # key)
DdhSet(d, key, value) ==
    IF DdhHas(d, key)
    THEN [i \in DOMAIN d |-> IF d[i][1] = key THEN <<key, value>> ELSE d[i]]
    ELSE Append(d, <<key, value>>)

(***************************************************************************)
(* DecisionTable.evaluate                                                  *)
(***************************************************************************)
IsNumber(v) == v.t \in {"int", "bool"}

\* line 188: op_func(ddh.data[ddh_key], value).  Two numbers (bool counts as int) are
\* compared by value; a str against a number is unequal under "=" and a TypeError
\* under the ordering operators.  A condition with an operator never holds a str
\* (ClassifyRemainder), so two strs are never ordered here.
Compare(operator, a, value) ==
    IF IsNumber(a) /\ IsNumber(value)
    THEN IF OpFunc(operator, a.n, value.n) THEN "True" ELSE "False"
    ELSE IF operator = <<"=">>
         THEN IF a = value THEN "True" ELSE "False"
         ELSE "TypeError"

CheckPredictor_BareLiteralEquals(decision_dict, ddh_key, ddh_value) ==
    IF ddh_key \notin DOMAIN decision_dict
    THEN "ValueError: Could not find column"
    ELSE IF decision_dict[ddh_key].op = None
         THEN IF decision_dict[ddh_key].val = ddh_value THEN "match" ELSE "break"
         ELSE LET match == Compare(decision_dict[ddh_key].op, ddh_value,
                                   decision_dict[ddh_key].val)
              IN CASE match = "True" -> "match"
                   [] match = "False" -> "break"
                   [] OTHER -> match

\* lines 178-190, one predictor against one row: "match" goes on to the next key,
\* "break" leaves the row, anything else is the exception raised
CheckPredictor(decision_dict, ddh_key, ddh_value) ==
    IF ddh_key \notin DOMAIN decision_dict
    THEN "ValueError: Could not find column"
    ELSE IF decision_dict[ddh_key].op = None
         THEN "ValueError: Operator not specified"
         ELSE LET match == Compare(decision_dict[ddh_key].op, ddh_value,
                                   decision_dict[ddh_key].val)
              IN CASE match = "True" -> "match"
                   [] match = "False" -> "break"
                   [] OTHER -> match

RECURSIVE CheckRow_NoBreak(_, _, _)
CheckRow_NoBreak(decision_dict, d, j) ==
    IF j > Len(d) THEN [res |-> "else", keys |-> <<>>]
    ELSE LET r == CheckPredictor(decision_dict, d[j][1], d[j][2])
             rest == CheckRow_NoBreak(decision_dict, d, j + 1)
         IN IF r \notin {"match", "break"}
            THEN [res |-> r, keys |-> <<d[j][1]>>]
            ELSE [res |-> IF r = "break" /\ rest.res = "else" THEN "break" ELSE rest.res,
                  keys |-> <<d[j][1]>> \o rest.keys]

\* lines 177-196, the inner for/else over ddh.data.keys() from position j on:
\* res is "else" (no break: the row matches), "break", or the exception raised;
\* keys are the ddh_key values looked up in the row
RECURSIVE CheckRow(_, _, _)
CheckRow(decision_dict, d, j) ==
    IF j > Len(d) THEN [res |-> "else", keys |-> <<>>]
    ELSE LET r == CheckPredictor(decision_dict, d[j][1], d[j][2])
         IN IF r = "match"
            THEN LET rest == CheckRow(decision_dict, d, j + 1)
                 IN [res |-> rest.res, keys |-> <<d[j][1]>> \o rest.keys]
            ELSE [res |-> r, keys |-> <<d[j][1]>>]

ClearStatus_Keep(d) == d

\* lines 168-170
ClearStatus(d) == IF DdhHas(d, status_column) THEN DdhDel(d, status_column) ELSE d

WriteStatus_LoopKey(d, decision_dict) ==
    IF d = <<>>
    THEN DdhSet(d, status_column, decision_dict[status_column].val)
    ELSE DdhSet(d, d[Len(d)][1], decision_dict[status_column].val)

\* line 195
WriteStatus(d, decision_dict) == DdhSet(d, status_column, decision_dict[status_column].val)

Tag(i, keys) == [k \in DOMAIN keys |-> <<i, keys[k]>>]

RECURSIVE EvalRows_LastMatch(_, _, _)
EvalRows_LastMatch(matrix, d, i) ==
    IF i > Len(matrix)
    THEN [res |-> IF DdhHas(d, status_column) THEN "True" ELSE "False",
          row |-> 0, ddh |-> d, lookups |-> <<>>]
    ELSE IF status_column \notin DOMAIN matrix[i]
         THEN [res |-> "MissingColumnError", row |-> i, ddh |-> d, lookups |-> <<>>]
         ELSE LET c == CheckRow(matrix[i], ClearStatus(d), 1)
                  rest == EvalRows_LastMatch(matrix,
                              IF c.res = "else" THEN WriteStatus(d, matrix[i]) ELSE d, i + 1)
              IN IF c.res \in {"else", "break"}
                 THEN [rest EXCEPT !.lookups = Tag(i, c.keys) \o rest.lookups]
                 ELSE [res |-> c.res, row |-> i, ddh |-> d, lookups |-> Tag(i, c.keys)]

\* lines 173-197, the for loop over self._decision_matrix from row i on: what evaluate
\* returns or raises (res), at which row (row, 0 after the loop), the predictor set it
\* leaves (ddh) and the <<row, ddh_key>> lookups it made
RECURSIVE EvalRows(_, _, _)
EvalRows(matrix, d, i) ==
    IF i > Len(matrix)
    THEN [res |-> "False", row |-> 0, ddh |-> d, lookups |-> <<>>]
    ELSE IF status_column \notin DOMAIN matrix[i]
         THEN [res |-> "MissingColumnError", row |-> i, ddh |-> d, lookups |-> <<>>]
         ELSE LET c == CheckRow(matrix[i], d, 1)
              IN CASE c.res = "else" ->
                        [res |-> "True", row |-> i, ddh |-> WriteStatus(d, matrix[i]),
                         lookups |-> Tag(i, c.keys)]
                   [] c.res = "break" ->
                        LET rest == EvalRows(matrix, d, i + 1)
                        IN [rest EXCEPT !.lookups = Tag(i, c.keys) \o rest.lookups]
                   [] OTHER ->
                        [res |-> c.res, row |-> i, ddh |-> d, lookups |-> Tag(i, c.keys)]

\* DecisionTable.evaluate(ddh), on the matrix matrix and the predictor set d
evaluate(matrix, d) ==
    IF ~decision_matrix_built(matrix)
    THEN [res |-> "MissingDataError", row |-> 0, ddh |-> d, lookups |-> <<>>]
    ELSE EvalRows(matrix, ClearStatus(d), 1)

(***************************************************************************)
(* Inputs.  Decision rows are drawn from the two-row rule table with the   *)
(* columns age, country and status and from variations of its rows;        *)
(* predictors take two values each.                                        *)
(***************************************************************************)
Ge18 == <<">", "=", "1", "8">>
Lt18 == <<"<", "1", "8">>
UK == <<"U", "K">>
EqTrue == <<"=", "t", "r", "u", "e">>
GtAbc == <<">", "a", "b", "c">>
AdultUk == <<"a", "d", "u", "l", "t", "_", "u", "k">>
AdultOther == <<"a", "d", "u", "l", "t", "_", "o", "t", "h", "e", "r">>

ScenarioRow1 == [age |-> Ge18, country |-> UK, status |-> AdultUk]
ScenarioRow2 == [age |-> Ge18, country |-> <<>>, status |-> AdultOther]
FullRows == {[age |-> a, country |-> EqTrue, status |-> s] :
                a \in {Ge18, Lt18}, s \in {AdultUk, AdultOther}}
NoStatusRow == [age |-> Ge18, country |-> EqTrue]
NoCountryRow == [age |-> Ge18, status |-> AdultUk]
BadValueRow == [age |-> GtAbc, country |-> EqTrue, status |-> AdultUk]

RawRows == FullRows \cup {ScenarioRow1, ScenarioRow2, NoStatusRow, NoCountryRow, BadValueRow}

\* the rows the repeated builds draw from: two that parse, one without status, one
\* that does not parse
BuildRows == {ScenarioRow1, ScenarioRow2, NoStatusRow, BadValueRow}

RowLists(rows, n) == UNION {[1..k -> rows] : k \in 0..n}

PredictorKeys == {"age", "country"}
PredictorValues(key) ==
    IF key = "age" THEN {PyInt(15), PyInt(20)} ELSE {PyStr(UK), PyBool(TRUE)}

\* the predictor sets a caller creates: up to one entry per predictor, in either order
SingleSets(k) == {<<<<k, v>>>> : v \in PredictorValues(k)}
PredictorSets ==
    {<<>>}
    \cup UNION {SingleSets(k) : k \in PredictorKeys}
    \cup UNION {{s1 \o s2 : s1 \in SingleSets(k[1]), s2 \in SingleSets(k[2])} :
                   k \in {<<"age", "country">>, <<"country", "age">>}}

\* generated cells: [text] [operator run] text [operator run]
OpRuns(n) == UNION {[1..k -> OpChars] : k \in 0..n}
UpperChar(c) == UpperCase[IndexOf(LowerCase, c)]
RECURSIVE Casings(_)
Casings(text) ==
    IF text = <<>> THEN {<<>>}
    ELSE {<<c>> \o rest : c \in {Head(text), UpperChar(Head(text))},
                          rest \in Casings(Tail(text))}
BoolTexts == Casings(TrueText) \cup Casings(FalseText)
DigitTexts == UNION {[1..k -> {"0", "1", "8"}] : k \in 1..MaxDigits}
IntTexts == DigitTexts \cup {<<"-">> \o s : s \in DigitTexts}
OtherTexts == {<<>>, <<"-">>, <<"a", "b", "c">>, UK, <<"t", "r", "u">>, <<"1", "a">>}
Cells == {pre \o run \o text \o tail :
             pre \in {<<>>, <<"1">>, <<"-">>},
             run \in OpRuns(MaxOpRun),
             text \in BoolTexts \cup IntTexts \cup OtherTexts,
             tail \in {<<>>, <<">">>, <<"=">>, <<">", "=">>}}

(***************************************************************************)
(* The state machine: one DecisionTable instance and one predictor set.    *)
(***************************************************************************)
NotParsed == [res |-> "not called", op |-> None, val |-> PyStr(<<>>)]
Outcome(op, res, row, had) == [op |-> op, res |-> res, row |-> row, had |-> had]

\* DecisionTable.__init__, and a predictor set as the caller created it
Init ==
    /\ csv_data = <<>>
    /\ decision_matrix = <<>>
    /\ ddh \in PredictorSets
    /\ ret = Outcome("__init__", "None", 0, FALSE)
    /\ lookups = <<>>
    /\ last_loaded = <<>>
    /\ cell = <<>>
    /\ parsed = NotParsed

\* dt = DecisionTable(): a fresh instance replaces the table
New ==
    /\ csv_data' = <<>>
    /\ decision_matrix' = <<>>
    /\ last_loaded' = <<>>
    /\ ret' = Outcome("__init__", "None", 0, FALSE)
    /\ lookups' = <<>>
    /\ UNCHANGED <<ddh, cell, parsed>>

\* DecisionTable.load_csv_data(rows)
LoadCsvData(rows) ==
    /\ LET built == parse_csv_data(decision_matrix, rows)
       IN /\ csv_data' = rows
          /\ decision_matrix' = built.matrix
          /\ ret' = Outcome("load_csv_data", built.res, built.row, FALSE)
          /\ last_loaded' = IF built.res = "None" THEN rows ELSE last_loaded
    /\ lookups' = <<>>
    /\ UNCHANGED <<ddh, cell, parsed>>

\* DecisionTable.evaluate(ddh)
Evaluate ==
    /\ LET e == evaluate(decision_matrix, ddh)
       IN /\ ddh' = e.ddh
          /\ ret' = Outcome("evaluate", e.res, e.row, DdhHas(ddh, status_column))
          /\ lookups' = e.lookups
    /\ UNCHANGED <<csv_data, decision_matrix, last_loaded, cell, parsed>>

\* the caller changes the value of a predictor between calls: ddh[key] = value
SetItem(key, value) ==
    /\ DdhHas(ddh, key)
    /\ DdhGet(ddh, key) # value
    /\ ddh' = DdhSet(ddh, key, value)
    /\ ret' = Outcome("__setitem__", "None", 0, FALSE)
    /\ lookups' = <<>>
    /\ UNCHANGED <<csv_data, decision_matrix, last_loaded, cell, parsed>>

\* an instance on which load_csv_data has built nothing yet
Fresh == csv_data = <<>> /\ decision_matrix = <<>>

\* Evaluation: each instance is loaded once (as create_from_csv does), then
\* predictor sets are evaluated against it.
Next ==
    \/ New
    \/ \E rows \in RowLists(RawRows, MaxRows) : Fresh /\ LoadCsvData(rows)
    \/ Evaluate
    \/ \E key \in PredictorKeys : \E value \in PredictorValues(key) : SetItem(key, value)

Spec == Init /\ [][Next]_vars

\* Building: load_csv_data is called again and again on one instance, the matrix
\* holding at most MaxRows rows, and an empty predictor set is evaluated in between.
InitBuild ==
    /\ csv_data = <<>>
    /\ decision_matrix = <<>>
    /\ ddh = <<>>
    /\ ret = Outcome("__init__", "None", 0, FALSE)
    /\ lookups = <<>>
    /\ last_loaded = <<>>
    /\ cell = <<>>
    /\ parsed = NotParsed

NextBuild ==
    \/ New
    \/ \E rows \in RowLists(BuildRows, MaxRows - Len(decision_matrix)) : LoadCsvData(rows)
    \/ Evaluate

SpecBuild == InitBuild /\ [][NextBuild]_vars

(***************************************************************************)
(* The cell parser on its own, over the generated cells.                   *)
(***************************************************************************)
InitParse ==
    /\ csv_data = <<>>
    /\ decision_matrix = <<>>
    /\ ddh = <<>>
    /\ ret = Outcome("__init__", "None", 0, FALSE)
    /\ lookups = <<>>
    /\ last_loaded = <<>>
    /\ cell \in Cells
    /\ parsed = NotParsed

ParseCell ==
    /\ parsed = NotParsed
    /\ parsed' = parse_cell_value(cell)
    /\ UNCHANGED <<csv_data, decision_matrix, ddh, ret, lookups, last_loaded, cell>>

NextParse == ParseCell

SpecParse == InitParse /\ [][NextParse]_vars

(***************************************************************************)
(* Properties.                                                             *)
(***************************************************************************)
HasStatus(d) == DdhHas(d, status_column)
NonStatus(d) == SelectSeq(d, LAMBDA pair : pair[1] # status_column)
Predictors == NonStatus(ddh)
Evaluated == ret.op = "evaluate"
Min(S) == CHOOSE x \in S : \A y \in S : x <= y

\* predictor j satisfies (fails) the condition row i holds for it
Tagged(i, j) ==
    /\ Predictors[j][1] \in DOMAIN decision_matrix[i]
    /\ decision_matrix[i][Predictors[j][1]].op # None
Satisfies(i, j) ==
    /\ Tagged(i, j)
    /\ Compare(decision_matrix[i][Predictors[j][1]].op, Predictors[j][2],
               decision_matrix[i][Predictors[j][1]].val) = "True"
Fails(i, j) ==
    /\ Tagged(i, j)
    /\ Compare(decision_matrix[i][Predictors[j][1]].op, Predictors[j][2],
               decision_matrix[i][Predictors[j][1]].val) = "False"
RowSatisfied(i) == \A j \in DOMAIN Predictors : Satisfies(i, j)
SatisfiedRows == {i \in DOMAIN decision_matrix : RowSatisfied(i)}
RowStatus(i) == decision_matrix[i][status_column].val

WellFormed ==
    /\ decision_matrix # <<>>
    /\ \A i \in DOMAIN decision_matrix :
          /\ status_column \in DOMAIN decision_matrix[i]
          /\ \A j \in DOMAIN Predictors : Tagged(i, j)

\* C1: on a non-empty matrix whose rows all hold a status and an operator-tagged
\* condition for every predictor key, evaluate returns True iff some row has every
\* predictor satisfying its condition, the status written is that of the lowest such
\* row, and an empty predictor set matches row 1.
C1_FirstMatchWins ==
    (Evaluated /\ WellFormed) =>
        /\ (ret.res = "True") <=> (SatisfiedRows # {})
        /\ SatisfiedRows # {} =>
              /\ HasStatus(ddh)
              /\ DdhGet(ddh, status_column) = RowStatus(Min(SatisfiedRows))
        /\ Predictors = <<>> =>
              /\ ret.res = "True"
              /\ DdhGet(ddh, status_column) = RowStatus(1)

C1_Witness ==
    /\ Evaluated /\ WellFormed
    /\ Predictors # <<>>
    /\ SatisfiedRows = {1, 2}
    /\ RowStatus(1) # RowStatus(2)
    /\ ret.res = "True"

\* C2: after an evaluate call that returned, status is in the predictor set iff the
\* call returned True, and then it is the status of the row this call matched; after
\* a call that returned False there is no status, whatever an earlier call wrote.
C2_StatusIffTrue ==
    (Evaluated /\ ret.res \in {"True", "False"}) =>
        /\ HasStatus(ddh) <=> (ret.res = "True")
        /\ ret.res = "True" =>
              /\ SatisfiedRows # {}
              /\ DdhGet(ddh, status_column) = RowStatus(Min(SatisfiedRows))

C2_Witness ==
    /\ Evaluated
    /\ ret.res = "False"
    /\ ret.had
    /\ ~HasStatus(ddh)

\* C3: if any row of the matrix lacks a status entry, evaluate fails with the
\* missing-column error for such a row, wherever the row stands: it never returns
\* True and never writes a status.
C3_MissingStatusAlwaysRaises ==
    (Evaluated /\ \E i \in DOMAIN decision_matrix :
                      status_column \notin DOMAIN decision_matrix[i]) =>
        /\ ret.res = "MissingColumnError"
        /\ ret.row \in DOMAIN decision_matrix
        /\ status_column \notin DOMAIN decision_matrix[ret.row]
        /\ ~HasStatus(ddh)

\* the position, in key order, of the first predictor that fails its condition in
\* row i after all earlier ones were satisfied; 0 if there is none
FailPos(i) ==
    IF \E j \in DOMAIN Predictors : Fails(i, j) /\ \A k \in 1..(j - 1) : Satisfies(i, k)
    THEN CHOOSE j \in DOMAIN Predictors : Fails(i, j) /\ \A k \in 1..(j - 1) : Satisfies(i, k)
    ELSE 0
Abandoned(i) == status_column \in DOMAIN decision_matrix[i] /\ FailPos(i) > 0
LookupsIn(i) == SelectSeq(lookups, LAMBDA l : l[1] = i)

\* C4: in a row that evaluate reaches, the predictors are looked up in the predictor
\* set's key order up to the first one that fails its condition and no further: no
\* later key is looked up, the row raises nothing, and evaluation goes on to the next
\* row; when every row is left this way evaluate returns False with no status.
C4_ShortCircuit ==
    Evaluated =>
        /\ \A i \in DOMAIN decision_matrix :
              (Abandoned(i) /\ (ret.res = "False" \/ ret.row >= i)) =>
                  /\ LookupsIn(i) = [j \in 1..FailPos(i) |-> <<i, Predictors[j][1]>>]
                  /\ ret.res = "False" \/ ret.row > i
        /\ (decision_matrix # <<>> /\ \A i \in DOMAIN decision_matrix : Abandoned(i)) =>
              /\ ret.res = "False"
              /\ ~HasStatus(ddh)

C4_Witness ==
    /\ Evaluated
    /\ ret.res = "False"
    /\ Len(Predictors) = 2
    /\ \E i \in DOMAIN decision_matrix :
          FailPos(i) = 1 /\ Predictors[2][1] \notin DOMAIN decision_matrix[i]
    /\ \E i \in DOMAIN decision_matrix :
          /\ FailPos(i) = 1
          /\ Predictors[2][1] \in DOMAIN decision_matrix[i]
          /\ decision_matrix[i][Predictors[2][1]].op = None

ScenarioTable == <<ScenarioRow1, ScenarioRow2>>
ScenarioPredictors == <<<<"age", PyInt(20)>>, <<"country", PyStr(UK)>>>>
InScenario ==
    /\ Evaluated
    /\ csv_data = ScenarioTable
    /\ Len(decision_matrix) = Len(ScenarioTable)
    /\ Predictors = ScenarioPredictors

\* C5 as stated: the scenario table evaluated for {age: 20, country: "UK"} returns
\* True with status "adult_uk".
C5_ScenarioMatchesRow1 ==
    InScenario =>
        /\ ret.res = "True"
        /\ HasStatus(ddh)
        /\ DdhGet(ddh, status_column) = PyStr(AdultUk)

\* C5 amended: the scenario table builds into (">=", 18) and the bare (None, "UK"),
\* and evaluating {age: 20, country: "UK"} fails on row 1 with the operator-not-
\* specified error for the country column; nothing is returned, no status is written.
C5_ScenarioRaises ==
    InScenario =>
        /\ decision_matrix[1]["age"] = [op |-> <<">", "=">>, val |-> PyInt(18)]
        /\ decision_matrix[1]["country"] = [op |-> None, val |-> PyStr(UK)]
        /\ RowStatus(1) = PyStr(AdultUk)
        /\ ret.res = "ValueError: Operator not specified"
        /\ ret.row = 1
        /\ lookups = <<<<1, "age">>, <<1, "country">>>>
        /\ ~HasStatus(ddh)

C5_Witness == InScenario /\ ret.res = "ValueError: Operator not specified"

\* C6 as stated: load_csv_data with zero rows succeeds with a matrix of zero rows,
\* and evaluate against an empty matrix returns False with no status.
C6_EmptyLoadSucceeds ==
    /\ (ret.op = "load_csv_data" /\ csv_data = <<>>) =>
          (ret.res = "None" /\ decision_matrix = <<>>)
    /\ (Evaluated /\ decision_matrix = <<>>) =>
          (ret.res = "False" /\ ~HasStatus(ddh))

\* C6 amended: load_csv_data with zero rows fails with the missing-data error and
\* leaves the matrix as it was; evaluate against an empty matrix fails with the
\* missing-data error and leaves the predictor set as it was.
C6_EmptyLoadRaises ==
    [][/\ (ret'.op = "load_csv_data" /\ csv_data' = <<>>) =>
             (ret'.res = "MissingDataError" /\ decision_matrix' = decision_matrix)
       /\ (ret'.op = "evaluate" /\ decision_matrix = <<>>) =>
             (ret'.res = "MissingDataError" /\ ddh' = ddh /\ decision_matrix' = <<>>)]_vars

C6_Witness ==
    /\ ret.op = "load_csv_data"
    /\ csv_data = <<>>
    /\ decision_matrix = <<>>
    /\ ret.res = "MissingDataError"

Operators == OPS_MAP_keys
BoolOf(text) == PyBool(Lower(text) = TrueText)

\* C7 as stated: a cell that is a casing of true/false, after one of the five
\* operators or after none, parses to the boolean and the operator (None if none).
C7_BooleanAlways ==
    parsed # NotParsed =>
        \A operator \in Operators \cup {None} : \A text \in BoolTexts :
            cell = operator \o text => parsed = Returned(operator, BoolOf(text))

\* C7 amended: after one of the five operators a casing of true/false parses to that
\* operator and the boolean; with no operator the cell is returned as it is, a string,
\* with operator None.
C7_BooleanAfterOperator ==
    parsed # NotParsed =>
        \A text \in BoolTexts :
            /\ \A operator \in Operators :
                  cell = operator \o text => parsed = Returned(operator, BoolOf(text))
            /\ cell = text => parsed = Returned(None, PyStr(text))

C7_Witness ==
    /\ cell = <<"<", "=", "F", "a", "L", "s", "E">>
    /\ parsed = Returned(<<"<", "=">>, PyBool(FALSE))

\* C8: an evaluate call, however it ends, changes no entry of the predictor set other
\* than status and changes nothing of the table.
C8_EvaluateFrame ==
    [][ret'.op = "evaluate" =>
          /\ NonStatus(ddh') = NonStatus(ddh)
          /\ decision_matrix' = decision_matrix
          /\ csv_data' = csv_data]_vars

C8_Witness ==
    /\ Evaluated
    /\ ret.res = "True"
    /\ ret.had
    /\ Len(Predictors) = 2

\* the cell without the one occurrence of the operator that the search matched
RECURSIVE RemoveFirst(_, _)
RemoveFirst(operator, value) ==
    IF value = <<>> THEN <<>>
    ELSE IF StartsWith(value, operator)
         THEN SubSeq(value, Len(operator) + 1, Len(value))
         ELSE <<Head(value)>> \o RemoveFirst(operator, Tail(value))

\* C9: when the first run of operator characters is a recognised operator, the parser
\* classifies the cell with exactly that one occurrence removed: (operator, value) if
\* that is a boolean or a signed integer, unknown-value-type otherwise.
C9_RemovesOneOccurrence ==
    (parsed # NotParsed /\ SearchOperator(cell) \in Operators) =>
        parsed = ClassifyRemainder(SearchOperator(cell),
                                   RemoveFirst(SearchOperator(cell), cell))

\* C10: the matrix is empty or the row-by-row parse of the raw rows of the latest
\* load_csv_data call that succeeded.
C10_MatrixIsLastLoad ==
    \/ decision_matrix = <<>>
    \/ decision_matrix = [i \in DOMAIN last_loaded |-> ParseRow(last_loaded[i])]

====
